---- MODULE Spec2Model ----
(***************************************************************************)
(* University Syllabus AI Assistant: the upload / index / answer pipeline  *)
(* of app.py, src/document_processor.py, src/vector_store.py and           *)
(* src/rag_pipeline.py as a state machine.                                 *)
(*                                                                         *)
(* Texts are TLA+ strings (Len, SubSeq and \o act on them character by     *)
(* character).  A PDF is the sequence of the texts of its pages.  The      *)
(* persistent Chroma database is the record db: whether the named          *)
(* collection exists, the uuid of the collection that currently carries    *)
(* the name, and its records.  A langchain Chroma object is a handle that  *)
(* is bound, at construction, to the uuid of the collection it got.        *)
(* Every call that can raise returns an outcome record: Ok(v) or Raise(e). *)
(***************************************************************************)
EXTENDS Integers, Sequences, FiniteSets, TLC

VARIABLES
    vector_store,      \* st.session_state.vector_store: None or the store
    rag_pipeline,      \* st.session_state.rag_pipeline: None or the pipeline
    processed_files,   \* st.session_state.processed_files
    documents_loaded,  \* st.session_state.documents_loaded
    db,                \* the persistent Chroma database (one named collection)
    next_uuid,         \* next collection uuid the database hands out
    next_id,           \* next record id the database hands out
    upload,            \* process_uploaded_pdfs: whether its loop is running, and its counters
    lastOp             \* the last operation: its name, inputs and what it returned

vars == <<vector_store, rag_pipeline, processed_files, documents_loaded,
          db, next_uuid, next_id, upload, lastOp>>

(***************************************************************************)
(* Bounds of the model.                                                    *)
(***************************************************************************)
MaxBatch == 2       \* files in one call of process_uploaded_pdfs
MaxRecords == 2     \* an upload starts only while at most this many ids were handed out
MaxCollections == 2 \* collections the database creates in one run
MaxDocs == 3        \* documents handed to _extract_sources in SpecSources
MaxIndex == 13      \* records of the index the retriever searches in SpecMmr

\* Python's None where a component is expected, and where a hash is expected
None == [none |-> TRUE]
NoHash == <<>>

Ok(v) == [raised |-> FALSE, value |-> v]
Raise(e) == [raised |-> TRUE, error |-> e]

Min(a, b) == IF a <= b THEN a ELSE b
Abs(a) == IF a < 0 THEN 0 - a ELSE a

\* s repeated n times
RECURSIVE Rep(_, _)
Rep(s, n) ==
    IF n = 0 THEN ""
    ELSE IF n % 2 = 1 THEN s \o Rep(s, n - 1)
    ELSE LET h == Rep(s, n \div 2) IN h \o h

(***************************************************************************)
(* Config                                                                  *)
(***************************************************************************)
CHUNK_SIZE == 1000
CHUNK_OVERLAP == 200
TOP_K_RESULTS == 6
COLLECTION_NAME == "syllabus_documents"

(***************************************************************************)
(* str.strip(): the text without its leading and trailing whitespace.      *)
(***************************************************************************)
Whitespace == {" ", "\t", "\n", "\r"}

RECURSIVE LStrip(_)
LStrip(s) ==
    IF Len(s) = 0 THEN s
    ELSE IF SubSeq(s, 1, 1) \in Whitespace THEN LStrip(SubSeq(s, 2, Len(s)))
    ELSE s

RECURSIVE RStrip(_)
RStrip(s) ==
    IF Len(s) = 0 THEN s
    ELSE IF SubSeq(s, Len(s), Len(s)) \in Whitespace THEN RStrip(SubSeq(s, 1, Len(s) - 1))
    ELSE s

Strip(s) == RStrip(LStrip(s))

(***************************************************************************)
(* DocumentProcessor                                                       *)
(***************************************************************************)
\* "\n\n".join(parts)
RECURSIVE Join(_)
Join(parts) ==
    IF Len(parts) = 0 THEN ""
    ELSE IF Len(parts) = 1 THEN parts[1]
    ELSE parts[1] \o "\n\n" \o Join(Tail(parts))

\* the pages whose text is not blank, in page order
RECURSIVE TextContent(_)
TextContent(pages) ==
    IF Len(pages) = 0 THEN <<>>
    ELSE IF Strip(pages[1]) # "" THEN <<pages[1]>> \o TextContent(Tail(pages))
    ELSE TextContent(Tail(pages))

\* extract_text_from_pdf: every failure leaves as a ValueError
extract_text_from_pdf(pdf) ==
    IF Len(pdf) = 0 THEN Raise("Error extracting text from PDF: PDF file is empty")
    ELSE IF TextContent(pdf) = <<>>
         THEN Raise("Error extracting text from PDF: No text content found in PDF")
    ELSE Ok(Join(TextContent(pdf)))

\* hashlib.sha256(text.encode('utf-8')).hexdigest(): the digest is a value
\* determined by the text and by nothing else, and sha256 is taken to be
\* free of collisions.
_generate_hash(text) == <<"sha256", text>>

\* the mutant: the digest also depends on the name the file came under
get_document_hash_ByName(name, pdf) ==
    LET text == extract_text_from_pdf(pdf)
    IN  IF text.raised THEN text ELSE Ok(<<"sha256", name, text.value>>)

\* get_document_hash(pdf_path): the name of the file plays no part
get_document_hash(name, pdf) ==
    LET text == extract_text_from_pdf(pdf)
    IN  IF text.raised THEN text ELSE Ok(_generate_hash(text.value))

\* RecursiveCharacterTextSplitter.split_text for a text that starts and ends
\* with a non-blank character: a text of at most CHUNK_SIZE characters is one
\* chunk; a longer text without any of the separators "\n\n", "\n", ". ", " "
\* is cut character by character into windows of CHUNK_SIZE characters, each
\* starting CHUNK_OVERLAP characters before the end of the previous one.
RECURSIVE Windows(_, _)
Windows(text, start) ==
    IF start + CHUNK_SIZE - 1 >= Len(text) THEN <<SubSeq(text, start, Len(text))>>
    ELSE <<SubSeq(text, start, start + CHUNK_SIZE - 1)>>
         \o Windows(text, start + CHUNK_SIZE - CHUNK_OVERLAP)

split_text(text) ==
    IF Len(text) <= CHUNK_SIZE THEN <<text>> ELSE Windows(text, 1)

\* the mutant: each chunk carries the hash of its own text
MakeDocuments_HashPerChunk(chunks, name, doc_hash) ==
    [idx \in 1..Len(chunks) |->
        [page_content |-> chunks[idx],
         metadata |-> [source |-> name,
                       file_path |-> "/tmp/" \o name,
                       chunk_index |-> idx - 1,
                       total_chunks |-> Len(chunks),
                       document_hash |-> <<"sha256", chunks[idx]>>]]]

\* the Document objects process_pdf builds from the chunks
MakeDocuments(chunks, name, doc_hash) ==
    [idx \in 1..Len(chunks) |->
        [page_content |-> chunks[idx],
         metadata |-> [source |-> name,
                       file_path |-> "/tmp/" \o name,
                       chunk_index |-> idx - 1,
                       total_chunks |-> Len(chunks),
                       document_hash |-> doc_hash]]]

\* process_pdf(pdf_path); name is pdf_path.name
process_pdf(name, pdf) ==
    LET text == extract_text_from_pdf(pdf)
    IN  IF text.raised THEN text
        ELSE Ok(MakeDocuments(split_text(text.value), name, _generate_hash(text.value)))

(***************************************************************************)
(* The Chroma client and the langchain Chroma object                       *)
(***************************************************************************)
NoCollection == [exists |-> FALSE, uuid |-> 0, records |-> {}]

\* chromadb get_or_create_collection(name), as the Chroma(...) constructor
\* calls it: the collection that carries the name, created empty under a
\* fresh uuid when there is none.
GetOrCreate(d, uuid) ==
    IF d.exists THEN d ELSE [exists |-> TRUE, uuid |-> uuid, records |-> {}]

\* a call through a Chroma object reaches the collection the object was
\* bound to; it fails when that collection is no longer in the database
Reachable(d, handle) == d.exists /\ d.uuid = handle

\* _initialize_vector_store: both branches construct the same Chroma object
_initialize_vector_store(d, uuid) == GetOrCreate(d, uuid).uuid

\* SyllabusVectorStore.__init__: the store holds the Chroma object
SyllabusVectorStore(d, uuid) == [vector_store |-> _initialize_vector_store(d, uuid)]

\* RAGPipeline.__init__: the retriever keeps the Chroma object the store
\* holds at this moment
RAGPipeline(store) == [retriever |-> store.vector_store]

\* ids of the records already stored under a hash
WithHash(d, document_hash) ==
    {r \in d.records : r.doc.metadata.document_hash = document_hash}

\* the body of document_exists, before its except clause
document_exists_body(d, document_hash, fault) ==
    IF fault \/ ~d.exists THEN Raise("storage")
    ELSE Ok(WithHash(d, document_hash) # {})

\* the mutant: document_exists without its except clause
document_exists_NoExcept(d, document_hash, fault) ==
    document_exists_body(d, document_hash, fault)

\* document_exists: any exception becomes False
document_exists(d, document_hash, fault) ==
    LET r == document_exists_body(d, document_hash, fault)
    IN  IF r.raised THEN Ok(FALSE) ELSE r

\* the records Chroma.add_documents stores, one fresh id per document
NewRecords(documents, first_id) ==
    {[id |-> first_id + i - 1, doc |-> documents[i]] : i \in 1..Len(documents)}

\* add_documents: returns the ids; value.db is the database afterwards
add_documents(d, store, documents, first_id, fault) ==
    IF Len(documents) = 0 THEN Ok([ids |-> <<>>, db |-> d])
    ELSE IF fault \/ ~Reachable(d, store.vector_store) THEN Raise("storage")
    ELSE Ok([ids |-> [i \in 1..Len(documents) |-> first_id + i - 1],
             db |-> [d EXCEPT !.records = @ \cup NewRecords(documents, first_id)]])

\* get_collection_info
get_collection_info(d, fault) ==
    [collection_name |-> COLLECTION_NAME,
     document_count |-> IF fault \/ ~d.exists THEN 0 ELSE Cardinality(d.records),
     db_path |-> "./chroma_db"]

(***************************************************************************)
(* app.process_uploaded_pdfs, one iteration of its for loop.               *)
(*                                                                         *)
(* A file is [name, pdf, tmp, fault]: the uploaded name, the pages, the    *)
(* name of the temporary file it is saved under, and the storage call      *)
(* that fails while this file is processed ("none", "exists", "add").      *)
(* st is what the iteration can change: db, processed_files,               *)
(* success_count and next_id; the result adds what happened to the file.   *)
(* skipped_count is written but never read, and is left out.               *)
(***************************************************************************)
Done(st, doc_hash, outcome) ==
    [db |-> st.db, processed_files |-> st.processed_files,
     success_count |-> st.success_count, next_id |-> st.next_id,
     document_hash |-> doc_hash, outcome |-> outcome]

\* the mutant: the filename is recorded before the file is processed
ProcessOne_MarkFirst(st, store, file) ==
    IF file.name \in st.processed_files THEN Done(st, NoHash, "skipped_name")
    ELSE
    LET marked == [st EXCEPT !.processed_files = @ \cup {file.name}]
        doc_hash == get_document_hash(file.tmp, file.pdf)
    IN  IF doc_hash.raised THEN Done(marked, NoHash, "error")
        ELSE
        LET exists == document_exists(st.db, doc_hash.value, file.fault = "exists")
        IN  IF exists.raised THEN Done(marked, doc_hash.value, "error")
            ELSE IF exists.value
            THEN Done([marked EXCEPT !.processed_files = @ \cup {file.name}],
                      doc_hash.value, "skipped_hash")
            ELSE
            LET documents == process_pdf(file.tmp, file.pdf)
            IN  IF documents.raised THEN Done(marked, doc_hash.value, "error")
                ELSE IF Len(documents.value) = 0
                THEN Done(marked, doc_hash.value, "no_content")
                ELSE
                LET added == add_documents(st.db, store, documents.value, st.next_id,
                                           file.fault = "add")
                IN  IF added.raised THEN Done(marked, doc_hash.value, "error")
                    ELSE Done([marked EXCEPT !.db = added.value.db,
                                         !.next_id = @ + Len(documents.value),
                                         !.success_count = @ + 1,
                                         !.processed_files = @ \cup {file.name}],
                              doc_hash.value, "inserted")

\* the mutant: a failed insert has already stored the first chunk
ProcessOne_PartialInsert(st, store, file) ==
    IF file.name \in st.processed_files THEN Done(st, NoHash, "skipped_name")
    ELSE
    LET doc_hash == get_document_hash(file.tmp, file.pdf)
    IN  IF doc_hash.raised THEN Done(st, NoHash, "error")
        ELSE
        LET exists == document_exists(st.db, doc_hash.value, file.fault = "exists")
        IN  IF exists.raised THEN Done(st, doc_hash.value, "error")
            ELSE IF exists.value
            THEN Done([st EXCEPT !.processed_files = @ \cup {file.name}],
                      doc_hash.value, "skipped_hash")
            ELSE
            LET documents == process_pdf(file.tmp, file.pdf)
            IN  IF documents.raised THEN Done(st, doc_hash.value, "error")
                ELSE IF Len(documents.value) = 0
                THEN Done(st, doc_hash.value, "no_content")
                ELSE
                LET added == add_documents(st.db, store, documents.value, st.next_id,
                                           file.fault = "add")
                    first == add_documents(st.db, store, <<documents.value[1]>>,
                                           st.next_id, FALSE)
                IN  IF added.raised /\ ~first.raised
                    THEN Done([st EXCEPT !.db = first.value.db, !.next_id = @ + 1],
                              doc_hash.value, "error")
                    ELSE IF added.raised THEN Done(st, doc_hash.value, "error")
                    ELSE Done([st EXCEPT !.db = added.value.db,
                                         !.next_id = @ + Len(documents.value),
                                         !.success_count = @ + 1,
                                         !.processed_files = @ \cup {file.name}],
                              doc_hash.value, "inserted")

ProcessOne(st, store, file) ==
    IF file.name \in st.processed_files THEN Done(st, NoHash, "skipped_name")
    ELSE
    LET doc_hash == get_document_hash(file.tmp, file.pdf)
    IN  IF doc_hash.raised THEN Done(st, NoHash, "error")
        ELSE
        LET exists == document_exists(st.db, doc_hash.value, file.fault = "exists")
        IN  IF exists.raised THEN Done(st, doc_hash.value, "error")
            ELSE IF exists.value
            THEN Done([st EXCEPT !.processed_files = @ \cup {file.name}],
                      doc_hash.value, "skipped_hash")
            ELSE
            LET documents == process_pdf(file.tmp, file.pdf)
            IN  IF documents.raised THEN Done(st, doc_hash.value, "error")
                ELSE IF Len(documents.value) = 0
                THEN Done(st, doc_hash.value, "no_content")
                ELSE
                LET added == add_documents(st.db, store, documents.value, st.next_id,
                                           file.fault = "add")
                IN  IF added.raised THEN Done(st, doc_hash.value, "error")
                    ELSE Done([st EXCEPT !.db = added.value.db,
                                         !.next_id = @ + Len(documents.value),
                                         !.success_count = @ + 1,
                                         !.processed_files = @ \cup {file.name}],
                              doc_hash.value, "inserted")

(***************************************************************************)
(* Embedding and search.  The embedding model is a deterministic function  *)
(* of the text; here a point on a line of EmbedSpace positions, similarity *)
(* falling with the distance between two points.                           *)
(***************************************************************************)
EmbedSpace == 7

\* embed_documents / embed_query
Embed(text) == Len(text) % EmbedSpace

Similarity(a, b) == EmbedSpace - Abs(a - b)

\* r is ranked before s for the query: nearer first, the older id on a tie
Before(r, s, query) ==
    LET dr == Abs(Embed(r.doc.page_content) - Embed(query))
        ds == Abs(Embed(s.doc.page_content) - Embed(query))
    IN  dr < ds \/ (dr = ds /\ r.id < s.id)

\* collection.query(n_results = n): the n nearest records, nearest first
RECURSIVE Nearest(_, _, _)
Nearest(records, query, n) ==
    IF n = 0 \/ records = {} THEN <<>>
    ELSE LET first == CHOOSE r \in records :
                          \A s \in records \ {r} : Before(r, s, query)
         IN  <<first>> \o Nearest(records \ {first}, query, n - 1)

\* Chroma.similarity_search_with_score(query, k): (Document, score) pairs
chroma_similarity_search_with_score(d, handle, query, k, fault) ==
    IF fault \/ ~Reachable(d, handle) THEN Raise("storage")
    ELSE LET hits == Nearest(d.records, query, k)
         IN  Ok([i \in 1..Len(hits) |->
                    <<hits[i].doc,
                      Abs(Embed(hits[i].doc.page_content) - Embed(query))>>])

\* SyllabusVectorStore.similarity_search(query, k); k = 0 stands for both
\* None and 0, which "k or Config.TOP_K_RESULTS" treats alike
similarity_search(d, store, query, k, fault) ==
    LET kk == IF k = 0 THEN TOP_K_RESULTS ELSE k
    IN  chroma_similarity_search_with_score(d, store.vector_store, query, kk, fault)

\* SyllabusVectorStore.similarity_search_with_score(query, k)
similarity_search_with_score(d, store, query, k, fault) ==
    LET kk == IF k = 0 THEN TOP_K_RESULTS ELSE k
    IN  chroma_similarity_search_with_score(d, store.vector_store, query, kk * 2, fault)

(***************************************************************************)
(* Maximal marginal relevance, as the "mmr" retriever runs it: lambda_mult *)
(* is LAMBDA_NUM / LAMBDA_DEN, and scores are kept multiplied by           *)
(* LAMBDA_DEN so that they stay integers.                                  *)
(***************************************************************************)
LAMBDA_NUM == 1
LAMBDA_DEN == 2

MaxOf(S) == CHOOSE m \in S : \A x \in S : x <= m

\* the score of candidate i of the pool, given the candidates chosen so far
EquationScore(pool, query, idxs, i) ==
    LET e == Embed(pool[i].doc.page_content)
        query_score == Similarity(e, Embed(query))
        redundant_score ==
            MaxOf({Similarity(e, Embed(pool[idxs[j]].doc.page_content)) : j \in 1..Len(idxs)})
    IN  LAMBDA_NUM * query_score - (LAMBDA_DEN - LAMBDA_NUM) * redundant_score

\* the candidate added next: the best score, the earliest candidate on a tie
IdxToAdd(pool, query, idxs) ==
    LET chosen == {idxs[j] : j \in 1..Len(idxs)}
        rest == (1..Len(pool)) \ chosen
    IN  CHOOSE i \in rest :
            \A j \in rest :
                \/ EquationScore(pool, query, idxs, i) > EquationScore(pool, query, idxs, j)
                \/ EquationScore(pool, query, idxs, i) = EquationScore(pool, query, idxs, j)
                   /\ i <= j

RECURSIVE MmrLoop(_, _, _, _)
MmrLoop(pool, query, idxs, k) ==
    IF Len(idxs) >= Min(k, Len(pool)) THEN idxs
    ELSE MmrLoop(pool, query, Append(idxs, IdxToAdd(pool, query, idxs)), k)

\* the mutant: the selection runs until the pool is exhausted
maximal_marginal_relevance_WholePool(pool, query, k) ==
    IF Min(k, Len(pool)) <= 0 THEN <<>> ELSE MmrLoop(pool, query, <<1>>, Len(pool))

\* maximal_marginal_relevance: the positions in the pool, in selection order;
\* the pool is nearest first, so its first candidate is the most similar
maximal_marginal_relevance(pool, query, k) ==
    IF Min(k, Len(pool)) <= 0 THEN <<>> ELSE MmrLoop(pool, query, <<1>>, k)

\* Chroma.max_marginal_relevance_search(query, k, fetch_k): the records
\* chosen among the fetch_k nearest, in selection order
max_marginal_relevance_search(d, query, k, fetch_k) ==
    LET pool == Nearest(d.records, query, fetch_k)
        idxs == maximal_marginal_relevance(pool, query, k)
    IN  [i \in 1..Len(idxs) |-> pool[idxs[i]]]

\* retriever.invoke(question) of the retriever RAGPipeline.__init__ builds:
\* search_type "mmr", k = TOP_K_RESULTS, fetch_k = 2 * TOP_K_RESULTS
retriever_invoke(d, pipeline, question, fault) ==
    IF fault \/ ~Reachable(d, pipeline.retriever) THEN Raise("storage")
    ELSE LET chosen == max_marginal_relevance_search(d, question, TOP_K_RESULTS,
                                                     TOP_K_RESULTS * 2)
         IN  Ok([i \in 1..Len(chosen) |-> chosen[i].doc])

(***************************************************************************)
(* RAGPipeline                                                             *)
(***************************************************************************)
PREVIEW_THRESHOLD == 200
PREVIEW_CHARS == 1000
ELLIPSIS == "..."
VALIDATION_MESSAGE == "Please provide a valid question."
FALLBACK_SENTENCE ==
    "I don't have enough information in the uploaded syllabus documents to answer this question."
ERROR_PREFIX == "Error processing question: "

\* page_content[:1000]
Slice(text, n) == SubSeq(text, 1, Min(n, Len(text)))

\* the preview expression of _extract_sources
Preview(page_content) ==
    IF Len(page_content) > PREVIEW_THRESHOLD
    THEN Slice(page_content, PREVIEW_CHARS) \o ELLIPSIS
    ELSE page_content

SourceEntry(doc) ==
    [filename |-> doc.metadata.source,
     chunk_index |-> doc.metadata.chunk_index,
     preview |-> Preview(doc.page_content)]

\* the loop of _extract_sources, from document i on
RECURSIVE ExtractFrom(_, _, _, _)
ExtractFrom(documents, i, sources, seen_sources) ==
    IF i > Len(documents) THEN sources
    ELSE IF documents[i].metadata.source \notin seen_sources
    THEN ExtractFrom(documents, i + 1, Append(sources, SourceEntry(documents[i])),
                     seen_sources \cup {documents[i].metadata.source})
    ELSE ExtractFrom(documents, i + 1, sources, seen_sources)

\* the mutant: no seen_sources check, one entry per retrieved chunk
_extract_sources_NoDedup(documents) ==
    [i \in 1..Len(documents) |-> SourceEntry(documents[i])]

_extract_sources(documents) == ExtractFrom(documents, 1, <<>>, {})

\* what one call did: the outcome, and how often it called the retriever
\* and the generative model
Trace(out, retriever_calls, llm_calls) ==
    [out |-> out, retriever_calls |-> retriever_calls, llm_calls |-> llm_calls]

\* the mutant: no early return when nothing was retrieved
answer_question_try_NoFallback(d, pipeline, question, fault, reply) ==
    LET source_documents == retriever_invoke(d, pipeline, question, fault = "retrieval")
    IN  IF source_documents.raised THEN Trace(source_documents, 1, 0)
        ELSE IF fault = "llm" THEN Trace(Raise("generation"), 1, 1)
        ELSE Trace(Ok([answer |-> reply,
                       sources |-> _extract_sources(source_documents.value),
                       source_documents |-> source_documents.value]), 1, 1)

\* the try block of answer_question; reply is what llm.invoke returns when
\* it does not fail
answer_question_try(d, pipeline, question, fault, reply) ==
    LET source_documents == retriever_invoke(d, pipeline, question, fault = "retrieval")
    IN  IF source_documents.raised THEN Trace(source_documents, 1, 0)
        ELSE IF Len(source_documents.value) = 0
        THEN Trace(Ok([answer |-> FALLBACK_SENTENCE,
                       sources |-> <<>>,
                       source_documents |-> <<>>]), 1, 0)
        ELSE IF fault = "llm" THEN Trace(Raise("generation"), 1, 1)
        ELSE Trace(Ok([answer |-> reply,
                       sources |-> _extract_sources(source_documents.value),
                       source_documents |-> source_documents.value]), 1, 1)

\* the mutant: the retriever is called before the question is validated
answer_question_RetrieveFirst(d, pipeline, question, fault, reply) ==
    LET t == answer_question_try(d, pipeline, question, fault, reply)
    IN  IF Strip(question) = ""
        THEN Trace(Ok([answer |-> VALIDATION_MESSAGE, sources |-> <<>>]), t.retriever_calls, 0)
        ELSE IF t.out.raised
        THEN Trace(Ok([answer |-> ERROR_PREFIX \o t.out.error, sources |-> <<>>]),
                   t.retriever_calls, t.llm_calls)
        ELSE t

\* the mutant: no except clause, a failure leaves answer_question
answer_question_NoExcept(d, pipeline, question, fault, reply) ==
    IF Strip(question) = ""
    THEN Trace(Ok([answer |-> VALIDATION_MESSAGE, sources |-> <<>>]), 0, 0)
    ELSE answer_question_try(d, pipeline, question, fault, reply)

\* answer_question(question)
answer_question(d, pipeline, question, fault, reply) ==
    IF Strip(question) = ""
    THEN Trace(Ok([answer |-> VALIDATION_MESSAGE, sources |-> <<>>]), 0, 0)
    ELSE LET t == answer_question_try(d, pipeline, question, fault, reply)
         IN  IF t.out.raised
             THEN Trace(Ok([answer |-> ERROR_PREFIX \o t.out.error, sources |-> <<>>]),
                        t.retriever_calls, t.llm_calls)
             ELSE t

\* get_relevant_context(question, k): the store's similarity_search is called
\* whatever the question is
get_relevant_context(d, store, question, k, fault) ==
    [out |-> similarity_search(d, store, question, k, fault), index_calls |-> 1]

(***************************************************************************)
(* SyllabusVectorStore.delete_collection.  fault names the storage call    *)
(* that fails: "delete" (client.delete_collection), "reinit" (both         *)
(* attempts of _initialize_vector_store), or "none".  The exception is     *)
(* printed and swallowed.                                                  *)
(***************************************************************************)
delete_collection(d, store, uuid, fault) ==
    IF fault = "delete" \/ ~d.exists THEN [db |-> d, store |-> store]
    ELSE IF fault = "reinit" THEN [db |-> NoCollection, store |-> store]
    ELSE [db |-> GetOrCreate(NoCollection, uuid),
          store |-> [store EXCEPT !.vector_store = _initialize_vector_store(NoCollection, uuid)]]

(***************************************************************************)
(* Inputs                                                                  *)
(***************************************************************************)
Names == {"a.pdf", "b.pdf"}
\* tempfile.NamedTemporaryFile(suffix=".pdf"): a name no earlier upload that
\* reached the index was saved under
TmpName(n) == "tmp" \o ToString(n) \o ".pdf"

PdfShort == <<"Course X requires Calculus I.", "Final exam is Dec 10.">>
\* the same text as PdfShort in another file: a blank page in between
PdfShortBlankPage == <<"Course X requires Calculus I.", " ", "Final exam is Dec 10.">>
\* one page of 1500 characters without a separator: two chunks
PdfLong == <<Rep("b", 1500)>>
\* a page, but no text on it
PdfBlank == <<"  ">>
Pdfs == {PdfShort, PdfShortBlankPage, PdfLong, PdfBlank}

UploadFaults == {"none", "exists", "add"}
Files == [name : Names, pdf : Pdfs, fault : UploadFaults]

Questions == {"", " \n", "What is the prerequisite?"}
BlankQuestions == {"", " \n"}
Replies == {"Course X requires Calculus I.", FALLBACK_SENTENCE}
AnswerFaults == {"none", "retrieval", "llm"}
ClearFaults == {"none", "delete", "reinit"}
Hashes == {_generate_hash(Join(PdfShort)), _generate_hash(Join(PdfLong)),
           _generate_hash("never uploaded")}
KArgs == {0, 1}

(***************************************************************************)
(* The session                                                             *)
(***************************************************************************)
Idle == [active |-> FALSE, success_count |-> 0, files_done |-> 0]

Init ==
    /\ vector_store = None
    /\ rag_pipeline = None
    /\ processed_files = {}
    /\ documents_loaded = FALSE
    /\ db = NoCollection
    /\ next_uuid = 1
    /\ next_id = 1
    /\ upload = Idle
    /\ lastOp = [op |-> "start"]

\* initialize_components, as main() runs it on every script run
InitializeComponents ==
    /\ vector_store = None
    /\ next_uuid <= MaxCollections
    /\ vector_store' = SyllabusVectorStore(db, next_uuid)
    /\ rag_pipeline' = RAGPipeline(vector_store')
    /\ db' = GetOrCreate(db, next_uuid)
    /\ next_uuid' = IF db.exists THEN next_uuid ELSE next_uuid + 1
    /\ lastOp' = [op |-> "initialize_components"]
    /\ UNCHANGED <<processed_files, documents_loaded, next_id, upload>>

\* the "Initialize System" button: both components are built anew
InitializeSystem ==
    /\ vector_store # None
    /\ ~upload.active
    /\ next_uuid <= MaxCollections
    /\ vector_store' = SyllabusVectorStore(db, next_uuid)
    /\ rag_pipeline' = RAGPipeline(vector_store')
    /\ db' = GetOrCreate(db, next_uuid)
    /\ next_uuid' = IF db.exists THEN next_uuid ELSE next_uuid + 1
    /\ lastOp' = [op |-> "initialize_system"]
    /\ UNCHANGED <<processed_files, documents_loaded, next_id, upload>>

\* the "Clear Database" button
ClearDatabase(fault) ==
    /\ vector_store # None
    /\ ~upload.active
    /\ next_uuid <= MaxCollections
    /\ LET r == delete_collection(db, vector_store, next_uuid, fault)
       IN  /\ db' = r.db
           /\ vector_store' = r.store
           /\ next_uuid' = IF r.db.exists /\ r.db.uuid = next_uuid
                           THEN next_uuid + 1 ELSE next_uuid
    /\ processed_files' = {}
    /\ documents_loaded' = FALSE
    /\ lastOp' = [op |-> "clear", fault |-> fault]
    /\ UNCHANGED <<rag_pipeline, next_id, upload>>

\* process_uploaded_pdfs([]): "if not uploaded_files: return False"
ProcessNoFiles ==
    /\ vector_store # None
    /\ ~upload.active
    /\ lastOp' = [op |-> "upload_nothing", returned |-> FALSE]
    /\ UNCHANGED <<vector_store, rag_pipeline, processed_files, documents_loaded,
                   db, next_uuid, next_id, upload>>

\* process_uploaded_pdfs(uploaded_files), one file of uploaded_files at a
\* time: the first file enters the loop, and the file that is the last of
\* the list also runs what follows the loop.  No other operation runs
\* while the loop does.
ProcessUploadedFile(file, last) ==
    /\ vector_store # None
    /\ upload.active \/ next_id <= MaxRecords
    /\ last \/ upload.files_done + 1 < MaxBatch
    /\ LET st == ProcessOne([db |-> db, processed_files |-> processed_files,
                             success_count |-> upload.success_count,
                             next_id |-> next_id],
                            vector_store,
                            [name |-> file.name, pdf |-> file.pdf, fault |-> file.fault,
                             tmp |-> TmpName(next_id)])
       IN  /\ db' = st.db
           /\ processed_files' = st.processed_files
           /\ next_id' = st.next_id
           /\ IF last
              THEN /\ documents_loaded' = (documents_loaded \/ st.success_count > 0)
                   /\ upload' = Idle
              ELSE /\ documents_loaded' = documents_loaded
                   /\ upload' = [active |-> TRUE, success_count |-> st.success_count,
                                 files_done |-> upload.files_done + 1]
           /\ lastOp' = [op |-> "upload_file", name |-> file.name, pdf |-> file.pdf,
                         fault |-> file.fault, document_hash |-> st.document_hash,
                         outcome |-> st.outcome, last |-> last,
                         returned |-> last /\ st.success_count > 0]
    /\ UNCHANGED <<vector_store, rag_pipeline, next_uuid>>

\* rag_pipeline.answer_question(question)
AnswerQuestion(question, fault, reply) ==
    /\ rag_pipeline # None
    /\ ~upload.active
    /\ LET t == answer_question(db, rag_pipeline, question, fault, reply)
       IN  lastOp' = [op |-> "answer_question", question |-> question, fault |-> fault,
                      out |-> t.out, retriever_calls |-> t.retriever_calls,
                      llm_calls |-> t.llm_calls]
    /\ UNCHANGED <<vector_store, rag_pipeline, processed_files, documents_loaded,
                   db, next_uuid, next_id, upload>>

\* vector_store.document_exists(document_hash)
DocumentExists(document_hash, fault) ==
    /\ vector_store # None
    /\ ~upload.active
    /\ lastOp' = [op |-> "document_exists", document_hash |-> document_hash,
                  fault |-> fault, out |-> document_exists(db, document_hash, fault)]
    /\ UNCHANGED <<vector_store, rag_pipeline, processed_files, documents_loaded,
                   db, next_uuid, next_id, upload>>

\* vector_store.similarity_search(query, k)
SimilaritySearch(query, k, fault) ==
    /\ vector_store # None
    /\ ~upload.active
    /\ lastOp' = [op |-> "similarity_search", query |-> query, k |-> k, fault |-> fault,
                  out |-> similarity_search(db, vector_store, query, k, fault)]
    /\ UNCHANGED <<vector_store, rag_pipeline, processed_files, documents_loaded,
                   db, next_uuid, next_id, upload>>

\* vector_store.similarity_search_with_score(query, k)
SimilaritySearchWithScore(query, k, fault) ==
    /\ vector_store # None
    /\ ~upload.active
    /\ lastOp' = [op |-> "similarity_search_with_score", query |-> query, k |-> k,
                  fault |-> fault,
                  out |-> similarity_search_with_score(db, vector_store, query, k, fault)]
    /\ UNCHANGED <<vector_store, rag_pipeline, processed_files, documents_loaded,
                   db, next_uuid, next_id, upload>>

\* rag_pipeline.get_relevant_context(question, k); the pipeline calls the
\* store object it was built with, which is the one the session holds
GetRelevantContext(question, k, fault) ==
    /\ rag_pipeline # None
    /\ ~upload.active
    /\ LET t == get_relevant_context(db, vector_store, question, k, fault)
       IN  lastOp' = [op |-> "get_relevant_context", question |-> question, k |-> k,
                      fault |-> fault, out |-> t.out, index_calls |-> t.index_calls]
    /\ UNCHANGED <<vector_store, rag_pipeline, processed_files, documents_loaded,
                   db, next_uuid, next_id, upload>>

\* main(), the "Ask Questions" tab of a script run: documents_loaded is
\* raised when the collection turns out to hold records
RenderAskTab ==
    /\ vector_store # None
    /\ ~upload.active
    /\ ~documents_loaded
    /\ get_collection_info(db, FALSE).document_count # 0
    /\ documents_loaded' = TRUE
    /\ lastOp' = [op |-> "render_ask_tab"]
    /\ UNCHANGED <<vector_store, rag_pipeline, processed_files,
                   db, next_uuid, next_id, upload>>

Next ==
    \/ InitializeComponents
    \/ InitializeSystem
    \/ \E fault \in ClearFaults : ClearDatabase(fault)
    \/ ProcessNoFiles
    \/ \E file \in Files, last \in BOOLEAN : ProcessUploadedFile(file, last)
    \/ \E question \in Questions, fault \in AnswerFaults, reply \in Replies :
           AnswerQuestion(question, fault, reply)
    \/ \E document_hash \in Hashes, fault \in BOOLEAN : DocumentExists(document_hash, fault)
    \/ \E query \in Questions \ BlankQuestions, k \in KArgs, fault \in BOOLEAN :
           SimilaritySearch(query, k, fault)
    \/ \E query \in Questions \ BlankQuestions, k \in KArgs :
           SimilaritySearchWithScore(query, k, FALSE)
    \/ \E question \in Questions, k \in KArgs :
           GetRelevantContext(question, k, FALSE)
    \/ RenderAskTab

Spec == Init /\ [][Next]_vars

(***************************************************************************)
(* _extract_sources on its own: the documents are any sequence of at most  *)
(* MaxDocs of six retrieved chunks of two files, of lengths on both sides  *)
(* of the two numbers in the preview expression.                           *)
(***************************************************************************)
SampleDoc(source, chunk_index, letter, n) ==
    [page_content |-> Rep(letter, n),
     metadata |-> [source |-> source,
                   file_path |-> "/tmp/" \o source,
                   chunk_index |-> chunk_index,
                   total_chunks |-> 3,
                   document_hash |-> _generate_hash(source)]]

SampleDocs ==
    {SampleDoc("A", 0, "a", 150), SampleDoc("A", 1, "b", 200), SampleDoc("A", 2, "c", 1500),
     SampleDoc("B", 0, "d", 201), SampleDoc("B", 1, "e", 1000), SampleDoc("B", 2, "f", 1001)}

InitSources ==
    /\ vector_store = None
    /\ rag_pipeline = None
    /\ processed_files = {}
    /\ documents_loaded = FALSE
    /\ db = NoCollection
    /\ next_uuid = 1
    /\ next_id = 1
    /\ upload = Idle
    /\ \E n \in 0..MaxDocs : \E documents \in [1..n -> SampleDocs] :
           lastOp = [op |-> "documents", documents |-> documents]

\* pipeline._extract_sources(documents)
ExtractSources ==
    /\ lastOp.op = "documents"
    /\ lastOp' = [op |-> "_extract_sources", documents |-> lastOp.documents,
                  sources |-> _extract_sources(lastOp.documents)]
    /\ UNCHANGED <<vector_store, rag_pipeline, processed_files, documents_loaded,
                   db, next_uuid, next_id, upload>>

NextSources == ExtractSources

SpecSources == InitSources /\ [][NextSources]_vars

(***************************************************************************)
(* The retriever on its own: the index holds up to MaxIndex chunks whose   *)
(* texts, and with them their embeddings, follow one of a few patterns.    *)
(***************************************************************************)
Strides == 1..6

IndexRecord(i, stride) ==
    [id |-> i,
     doc |-> SampleDoc(IF i % 2 = 1 THEN "A" ELSE "B", i \div 2, "x",
                       20 + ((i * stride) % EmbedSpace))]

InitMmr ==
    /\ vector_store = [vector_store |-> 1]
    /\ rag_pipeline = RAGPipeline(vector_store)
    /\ processed_files = {}
    /\ documents_loaded = FALSE
    /\ \E n \in 0..MaxIndex, stride \in Strides :
           db = [exists |-> TRUE, uuid |-> 1,
                 records |-> {IndexRecord(i, stride) : i \in 1..n}]
    /\ next_uuid = 2
    /\ next_id = Cardinality(db.records) + 1
    /\ upload = Idle
    /\ lastOp = [op |-> "index"]

\* rag_pipeline.retriever.invoke(question)
Retrieve(question) ==
    /\ lastOp.op = "index"
    /\ lastOp' = [op |-> "retrieve", question |-> question,
                  chosen |-> max_marginal_relevance_search(db, question, TOP_K_RESULTS,
                                                           TOP_K_RESULTS * 2),
                  out |-> retriever_invoke(db, rag_pipeline, question, FALSE)]
    /\ UNCHANGED <<vector_store, rag_pipeline, processed_files, documents_loaded,
                   db, next_uuid, next_id, upload>>

NextMmr == \E question \in Questions \ BlankQuestions : Retrieve(question)

SpecMmr == InitMmr /\ [][NextMmr]_vars

(***************************************************************************)
(* Properties                                                              *)
(***************************************************************************)
\* the hash of the text a PDF yields, NoHash when it yields none
ContentHash(pdf) ==
    IF extract_text_from_pdf(pdf).raised THEN NoHash
    ELSE _generate_hash(extract_text_from_pdf(pdf).value)

\* no two records carry the same chunk of the same content
OneSetPerContent(d) ==
    \A r, s \in d.records :
        /\ r.doc.metadata.document_hash = s.doc.metadata.document_hash
        /\ r.doc.metadata.chunk_index = s.doc.metadata.chunk_index
        => r = s

IsUploadStep == lastOp'.op = "upload_file"

\* C1, as claimed: whatever happens during the uploads, the index holds
\* exactly one set of chunks per distinct document content.
C1_OneSetAlways == OneSetPerContent(db)

\* C1, amended: an upload whose existence check does not hit a storage
\* failure adds no records when the text of the file is already indexed,
\* whatever the filename, and it leaves an index that holds one set of
\* chunks per content an index that holds one set of chunks per content.
C1_DuplicateContentSkipped ==
    [][(IsUploadStep /\ lastOp'.fault # "exists")
        => /\ WithHash(db, ContentHash(lastOp'.pdf)) # {} => db'.records = db.records
           /\ OneSetPerContent(db) => OneSetPerContent(db')]_vars

\* C1: a file was skipped for its hash, the text being in the index from
\* an upload under the other filename
C1_Witness ==
    /\ lastOp.op = "upload_file"
    /\ lastOp.outcome = "skipped_hash"
    /\ lastOp.fault = "none"
    /\ processed_files = Names
    /\ Cardinality(WithHash(db, ContentHash(lastOp.pdf))) = 1

\* C2: a file that yields text is skipped exactly when the hash of that
\* text is already in the index, whatever its filename.
C2_HashIsSoleDedupKey ==
    [][(IsUploadStep /\ lastOp'.fault = "none" /\ ContentHash(lastOp'.pdf) # NoHash)
        => (lastOp'.outcome \in {"skipped_name", "skipped_hash"}
            <=> WithHash(db, ContentHash(lastOp'.pdf)) # {})]_vars

IsAnswer == lastOp.op = "answer_question"

\* C3: a blank question gets the validation message and no sources, and
\* neither the retriever nor the generative model is called.
C3_BlankQuestionShortCircuits ==
    (IsAnswer /\ lastOp.question \in BlankQuestions)
    => /\ lastOp.out = Ok([answer |-> "Please provide a valid question.", sources |-> <<>>])
       /\ lastOp.retriever_calls = 0
       /\ lastOp.llm_calls = 0

\* C3: a whitespace-only question was asked while the index held records
C3_Witness ==
    /\ IsAnswer
    /\ lastOp.question = " \n"
    /\ Reachable(db, rag_pipeline.retriever)
    /\ db.records # {}

\* the retrieval of the last answer_question call found no chunk
RetrievedNothing ==
    /\ IsAnswer
    /\ lastOp.question \notin BlankQuestions
    /\ lastOp.fault # "retrieval"
    /\ Reachable(db, rag_pipeline.retriever)
    /\ db.records = {}

\* C4: when retrieval finds no chunk the answer is the fallback sentence,
\* the source list is empty and the generative model is not called.
C4_ZeroRetrievalFallback ==
    RetrievedNothing
    => /\ ~lastOp.out.raised
       /\ lastOp.out.value.answer =
              "I don't have enough information in the uploaded syllabus documents to answer this question."
       /\ lastOp.out.value.sources = <<>>
       /\ lastOp.llm_calls = 0

\* C4: retrieval found nothing in a call whose generative model would fail
C4_Witness == RetrievedNothing /\ lastOp.fault = "llm"

\* the retrieval or the generation of the last answer_question call failed
AnswerFailed ==
    /\ IsAnswer
    /\ lastOp.question \notin BlankQuestions
    /\ \/ lastOp.fault = "retrieval"
       \/ ~Reachable(db, rag_pipeline.retriever)
       \/ lastOp.fault = "llm" /\ db.records # {}

StartsWith(text, prefix) ==
    Len(text) >= Len(prefix) /\ SubSeq(text, 1, Len(prefix)) = prefix

\* C5: answer_question never raises and returns an answer and a source
\* list; after a failure the answer is the error message and the source
\* list is empty.
C5_AlwaysWellFormed ==
    IsAnswer
    => /\ ~lastOp.out.raised
       /\ {"answer", "sources"} \subseteq DOMAIN lastOp.out.value
       /\ AnswerFailed
          => /\ StartsWith(lastOp.out.value.answer, "Error processing question: ")
             /\ Len(lastOp.out.value.answer) > Len("Error processing question: ")
             /\ lastOp.out.value.sources = <<>>

\* C5: the generative model failed on retrieved chunks
C5_Witness == AnswerFailed /\ lastOp.fault = "llm"

\* C6: a question asked without any storage failure, through whatever
\* pipeline the session holds, is answered from the collection the store
\* now works on: no error, and chunks of the index when it has any.
C6_AnswersFromRecreatedCollection ==
    (/\ IsAnswer
     /\ lastOp.question \notin BlankQuestions
     /\ lastOp.fault = "none"
     /\ Reachable(db, vector_store.vector_store))
    => /\ ~lastOp.out.raised
       /\ ~StartsWith(lastOp.out.value.answer, "Error processing question: ")
       /\ db.records # {}
          => /\ "source_documents" \in DOMAIN lastOp.out.value
             /\ lastOp.out.value.source_documents # <<>>
             /\ \A i \in 1..Len(lastOp.out.value.source_documents) :
                    \E r \in db.records : r.doc = lastOp.out.value.source_documents[i]

IsExtract == lastOp.op = "_extract_sources"

\* the position of the first document of a file
FirstOf(documents, filename) ==
    CHOOSE p \in 1..Len(documents) :
        /\ documents[p].metadata.source = filename
        /\ \A q \in 1..(p - 1) : documents[q].metadata.source # filename

\* C7: the source list has one entry per file among the documents, in the
\* order in which the files first occur, each entry with the chunk_index
\* and the preview of the first document of its file.
C7_SourcesDedupFirstOccurrence ==
    IsExtract
    => LET documents == lastOp.documents
           sources == lastOp.sources
       IN  /\ {sources[j].filename : j \in 1..Len(sources)}
                  = {documents[p].metadata.source : p \in 1..Len(documents)}
           /\ \A i, j \in 1..Len(sources) :
                  i < j => FirstOf(documents, sources[i].filename)
                               < FirstOf(documents, sources[j].filename)
           /\ \A j \in 1..Len(sources) :
                  LET first == documents[FirstOf(documents, sources[j].filename)]
                  IN  /\ sources[j].chunk_index = first.metadata.chunk_index
                      /\ StartsWith(sources[j].preview,
                                    SubSeq(first.page_content, 1, 150))

\* C7: [A#0, A#2, B#1] gave [A with chunk 0, B with chunk 1]
C7_Witness ==
    /\ IsExtract
    /\ lastOp.documents = <<SampleDoc("A", 0, "a", 150), SampleDoc("A", 2, "c", 1500),
                            SampleDoc("B", 1, "e", 1000)>>
    /\ Len(lastOp.sources) = 2
    /\ lastOp.sources[1].filename = "A" /\ lastOp.sources[1].chunk_index = 0
    /\ lastOp.sources[2].filename = "B" /\ lastOp.sources[2].chunk_index = 1

EndsWith(text, suffix) ==
    Len(text) >= Len(suffix)
    /\ SubSeq(text, Len(text) - Len(suffix) + 1, Len(text)) = suffix

\* C8: the preview is the whole text when the text has at most 200
\* characters and its first 1000 characters followed by "..." when it has
\* more; and "..." is there only when characters were cut off.
C8_PreviewEllipsisOnlyWhenCut ==
    IsExtract
    => \A j \in 1..Len(lastOp.sources) :
           LET text == lastOp.documents[FirstOf(lastOp.documents,
                                                lastOp.sources[j].filename)].page_content
               preview == lastOp.sources[j].preview
           IN  /\ Len(text) <= 200 => preview = text
               /\ Len(text) > 200 => preview = SubSeq(text, 1, Min(1000, Len(text))) \o "..."
               /\ EndsWith(preview, "...") => Len(text) > 1000

IsExists == lastOp.op = "document_exists"

\* C9: document_exists never raises; it returns True exactly when the
\* storage read succeeds and a record of the collection carries the hash,
\* hence False when the collection is missing or the read fails.
C9_ExistsIffRecordAndNeverRaises ==
    IsExists
    => /\ ~lastOp.out.raised
       /\ lastOp.out.value
          <=> /\ ~lastOp.fault
              /\ db.exists
              /\ \E r \in db.records : r.doc.metadata.document_hash = lastOp.document_hash

\* C9: document_exists was called while the collection was missing
C9_Witness == IsExists /\ ~db.exists /\ ~lastOp.fault

\* C10: a search during which the storage fails returns no results and
\* does not raise.
C10_SearchFailureCaught ==
    (lastOp.op = "similarity_search" /\ lastOp.fault)
    => /\ ~lastOp.out.raised
       /\ lastOp.out.value = <<>>

\* the k the caller asked for: "k or Config.TOP_K_RESULTS"
AskedK == IF lastOp.k = 0 THEN TOP_K_RESULTS ELSE lastOp.k

\* r comes before s in the ranking of the records for a query
RankedBefore(r, s, query) == Before(r, s, query)

\* C11: a search without diversity, through similarity_search or through
\* similarity_search_with_score, returns at most k results (6 when no k is
\* given): the k records nearest to the query, nearest first.
C11_TopKByRelevance ==
    (/\ lastOp.op \in {"similarity_search", "similarity_search_with_score"}
     /\ ~lastOp.fault
     /\ Reachable(db, vector_store.vector_store))
    => LET results == lastOp.out.value
       IN  /\ ~lastOp.out.raised
           /\ Len(results) <= AskedK
           /\ Len(results) = Min(AskedK, Cardinality(db.records))
           /\ \A i \in 1..Len(results) :
                  \E r \in db.records :
                      /\ r.doc = results[i][1]
                      /\ Cardinality({s \in db.records : RankedBefore(s, r, lastOp.query)})
                             = i - 1

\* C14: get_relevant_context with a blank question returns no documents
\* and does not call the index.
C14_BlankQuestionRetrievesNothing ==
    (lastOp.op = "get_relevant_context" /\ lastOp.question \in BlankQuestions)
    => /\ lastOp.out = Ok(<<>>)
       /\ lastOp.index_calls = 0

\* C12: the MMR search of the retriever returns at most 6 chunks, each
\* one of the 12 records nearest to the question, no record twice, and as
\* many as 6 unless the pool holds fewer.
C12_MmrWithinPoolNoDuplicates ==
    lastOp.op = "retrieve"
    => LET chosen == lastOp.chosen
       IN  /\ Len(chosen) <= TOP_K_RESULTS
           /\ Len(chosen) = Min(TOP_K_RESULTS, Cardinality(db.records))
           /\ \A i \in 1..Len(chosen) :
                  /\ chosen[i] \in db.records
                  /\ Cardinality({s \in db.records :
                                     RankedBefore(s, chosen[i], lastOp.question)})
                         < TOP_K_RESULTS * 2
           /\ \A i, j \in 1..Len(chosen) : chosen[i].id = chosen[j].id => i = j
           /\ ~lastOp.out.raised
           /\ lastOp.out.value = [i \in 1..Len(chosen) |-> chosen[i].doc]

\* C12: 6 chunks were chosen from an index of more than 12 records
C12_Witness ==
    /\ lastOp.op = "retrieve"
    /\ Cardinality(db.records) > TOP_K_RESULTS * 2
    /\ Len(lastOp.chosen) = TOP_K_RESULTS

\* the file of this upload step failed: its processing raised, or it
\* yielded no chunks
UploadFailed == IsUploadStep /\ lastOp'.outcome \in {"error", "no_content"}

\* C13: a file of a batch that fails changes nothing that the processing
\* of the other files reads (the index, the processed filenames, the ids,
\* the success count), and the loop goes on to the next file; after the
\* last file the batch ends as it would have without the failing file.
C13_FailureConfinedToFile ==
    [][UploadFailed
        => /\ db' = db
           /\ processed_files' = processed_files
           /\ next_id' = next_id
           /\ ~lastOp'.last
              => /\ upload'.active
                 /\ upload'.success_count = upload.success_count
                 /\ upload'.files_done = upload.files_done + 1
           /\ lastOp'.last
              => /\ upload' = Idle
                 /\ documents_loaded' = (documents_loaded \/ upload.success_count > 0)
                 /\ lastOp'.returned = (upload.success_count > 0)]_vars

\* C13: the insert of a file failed and the loop is on its way to the
\* next file of the batch
C13_Witness ==
    /\ lastOp.op = "upload_file"
    /\ lastOp.outcome = "error"
    /\ lastOp.fault = "add"
    /\ upload.active

\* C15: the chunks an upload inserts carry chunk_index 0..n-1 in split
\* order, each once, total_chunks = n, and all the same document_hash: the
\* hash of the whole extracted text, which is the hash the upload compared
\* against the index.
C15_ChunkMetadataConsistent ==
    [][(IsUploadStep /\ lastOp'.outcome = "inserted")
        => LET new == db'.records \ db.records
               text == extract_text_from_pdf(lastOp'.pdf).value
               n == Cardinality(new)
           IN  /\ n >= 1
               /\ n = Len(split_text(text))
               /\ \A i \in 0..(n - 1) :
                      Cardinality({r \in new : r.doc.metadata.chunk_index = i}) = 1
               /\ \A r \in new :
                      /\ r.doc.metadata.chunk_index \in 0..(n - 1)
                      /\ r.doc.page_content = split_text(text)[r.doc.metadata.chunk_index + 1]
                      /\ r.id = next_id + r.doc.metadata.chunk_index
                      /\ r.doc.metadata.total_chunks = n
                      /\ r.doc.metadata.document_hash = <<"sha256", text>>
                      /\ r.doc.metadata.document_hash = lastOp'.document_hash]_vars

\* C15: a document of two chunks was inserted
C15_Witness ==
    /\ lastOp.op = "upload_file"
    /\ lastOp.outcome = "inserted"
    /\ lastOp.pdf = PdfLong
    /\ Cardinality(WithHash(db, lastOp.document_hash)) = 2

\* C16: an upload adds its filename to processed_files exactly when it
\* ended in an insert or in a duplicate-hash skip, so the name of a file
\* that failed is not in the set afterwards; Clear Database empties the
\* set and sets documents_loaded to false; nothing else changes the set.
C16_ProcessedFilesOnlySuccessOrSkip ==
    [][/\ IsUploadStep
          => /\ processed_files' =
                    processed_files \cup
                        (IF lastOp'.outcome \in {"inserted", "skipped_hash"}
                         THEN {lastOp'.name} ELSE {})
             /\ lastOp'.outcome \in {"error", "no_content"}
                => lastOp'.name \notin processed_files'
       /\ lastOp'.op = "clear"
          => processed_files' = {} /\ documents_loaded' = FALSE
       /\ lastOp'.op \notin {"upload_file", "clear"}
          => processed_files' = processed_files]_vars

\* C16: a file failed while another filename was already processed, and
\* its own name is not in the set
C16_Witness ==
    /\ lastOp.op = "upload_file"
    /\ lastOp.outcome = "error"
    /\ processed_files # {}
    /\ lastOp.name \notin processed_files

====
